---- MODULE Spec2Model ----
(***************************************************************************)
(* State engine of the terminal snake game (snake_game/logic.py).          *)
(*                                                                         *)
(* A GameState is a record; step_state is modelled as the set of states it *)
(* can return, one per behaviour of the injected random source (an object  *)
(* whose choice(seq) returns one element of seq).                          *)
(***************************************************************************)
EXTENDS Integers, Sequences, FiniteSets, TLC

VARIABLES
    state,      \* the current GameState (logic.py:16-26)
    branch,     \* return site of the latest call that produced `state`
    raised,     \* exception raised by the latest call, "none" if it returned
    args,       \* (width, height) given to create_initial_state, <<>> for the defaults
    term,       \* stdscr.getmaxyx(): (rows, cols) of the terminal
    target_size,            \* target_size of _run, result of compute_board_size
    started,                \* started of _run
    paused,                 \* paused of _run
    requested_direction,    \* requested_direction of _run
    pc,         \* where _run is in its loop body
    ticks       \* step_state calls made by _run on the current game

loop_vars == <<term, target_size, started, paused, requested_direction, pc, ticks>>

vars == <<state, branch, raised, args, loop_vars>>

----------------------------------------------------------------------------
(* Bounds and program constants *)

\* Growth is explored up to this snake length in Spec.
MaxLen == 4

\* Largest width and height handed to create_initial_state in SpecCreate.
MaxBoard == 6

\* Largest terminal explored in SpecSize.
MaxTermRows == 53

MaxTermCols == 150

\* step_state calls explored per game in SpecCli.
MaxTicks == 4

\* In SpecCli the random source returns one of the first MaxPick elements
\* of the list it is given.
MaxPick == 2

MIN_BOARD_SIZE == 4

MAX_BOARD_SIZE == 48

CELL_WIDTH == 3

DEFAULT_WIDTH == 20

DEFAULT_HEIGHT == 20

DEFAULT_LIVES == 3

UP == <<0, -1>>
DOWN == <<0, 1>>
LEFT == <<-1, 0>>
RIGHT == <<1, 0>>

\* Python's None as requested_direction.
None == <<>>

Directions == {UP, DOWN, LEFT, RIGHT}

Requests == Directions \cup {None}

----------------------------------------------------------------------------
(* Helpers for Python lists *)

InSeq(p, seq) == \E i \in DOMAIN seq : seq[i] = p

\* rng.choice(seq): any element of a non-empty sequence.
choice(seq) == {seq[i] : i \in DOMAIN seq}

InBounds(p, width, height) ==
    /\ 0 <= p[1]
    /\ p[1] < width
    /\ 0 <= p[2]
    /\ p[2] < height

Reverse(d) == <<-d[1], -d[2]>>

----------------------------------------------------------------------------
(* logic.py *)

\* _initial_snake whose body extends in the +x direction.
initial_snake_forward(width, height) ==
    LET center == <<width \div 2, height \div 2>>
    IN  <<center, <<center[1] + 1, center[2]>>, <<center[1] + 2, center[2]>>>>

initial_snake(width, height) ==
    LET center == <<width \div 2, height \div 2>>
    IN  <<center, <<center[1] - 1, center[2]>>, <<center[1] - 2, center[2]>>>>

\* [(x, y) for x in range(width) for y in range(height) if (x, y) not in occupied]
respawn_available(snake, width, height) ==
    LET all == [i \in 1..(width * height) |->
                    <<(i - 1) \div height, (i - 1) % height>>]
    IN  SelectSeq(all, LAMBDA p : ~InSeq(p, snake))

\* directions whose first entry is a diagonal step.
respawn_directions_diagonal == <<<<1, 1>>, <<-1, 0>>, <<0, 1>>, <<0, -1>>>>

\* directions of line 48
respawn_directions == <<<<1, 0>>, <<-1, 0>>, <<0, 1>>, <<0, -1>>>>

Min(S) == CHOOSE m \in S : \A n \in S : m <= n

\* The remaining `k` iterations of the for loop of _respawn_snake.
RECURSIVE respawn_extend(_, _, _, _)
respawn_extend(snake, k, width, height) ==
    IF k = 0 THEN {snake}
    ELSE
      UNION { LET last == snake[Len(snake)]
                  cand(i) == <<last[1] + dirs[i][1], last[2] + dirs[i][2]>>
                  ok == {i \in DOMAIN dirs :
                            /\ InBounds(cand(i), width, height)
                            /\ ~InSeq(cand(i), snake)}
                  available == respawn_available(snake, width, height)
              IN  IF ok # {}
                  THEN respawn_extend(Append(snake, cand(Min(ok))), k - 1, width, height)
                  ELSE IF available # <<>>
                  THEN UNION { respawn_extend(Append(snake, a), k - 1, width, height) :
                                   a \in choice(available) }
                  ELSE {snake}
            : dirs \in choice(<<respawn_directions>>) }

MinOf(a, b) == IF a <= b THEN a ELSE b

\* _respawn_snake that counts the head twice and builds one segment too few.
respawn_snake_short(width, height, length) ==
    UNION { respawn_extend(<<<<start_x, start_y>>>>,
                           MinOf(length - 2, width * height - 1), width, height) :
                start_x \in 0..(width - 1), start_y \in 0..(height - 1) }

\* _respawn_snake that builds `length` segments after the head.
respawn_snake_long(width, height, length) ==
    UNION { respawn_extend(<<<<start_x, start_y>>>>,
                           MinOf(length, width * height - 1), width, height) :
                start_x \in 0..(width - 1), start_y \in 0..(height - 1) }

\* Every snake _respawn_snake can return.
respawn_snake(width, height, length) ==
    UNION { respawn_extend(<<<<start_x, start_y>>>>,
                           MinOf(length - 1, width * height - 1), width, height) :
                start_x \in 0..(width - 1), start_y \in 0..(height - 1) }

\* respawn_snake on the minimum board, evaluated once per snake length.
respawn_snake_table ==
    [length \in 1..(MIN_BOARD_SIZE * MIN_BOARD_SIZE) |->
        respawn_snake(MIN_BOARD_SIZE, MIN_BOARD_SIZE, length)]

respawn_snake_memo(width, height, length) ==
    IF /\ width = MIN_BOARD_SIZE
       /\ height = MIN_BOARD_SIZE
       /\ length \in DOMAIN respawn_snake_table
    THEN respawn_snake_table[length]
    ELSE respawn_snake(width, height, length)

direction_from_snake(snake) ==
    IF Len(snake) < 2 THEN RIGHT
    ELSE <<snake[1][1] - snake[2][1], snake[1][2] - snake[2][2]>>

\* update_direction that negates only the x component when testing for a reversal.
update_direction_half_reverse(current, req) ==
    IF req = <<-current[1], current[2]>> THEN current ELSE req

update_direction(current, req) ==
    IF req = Reverse(current) THEN current ELSE req

\* spawn_food_available that forgets to leave out the occupied cells.
spawn_food_available_unfiltered(snake, width, height) ==
    [i \in 1..(width * height) |-> <<(i - 1) % width, (i - 1) \div width>>]

\* [(x, y) for y in range(height) for x in range(width) if (x, y) not in occupied]
spawn_food_available(snake, width, height) ==
    LET all == [i \in 1..(width * height) |->
                    <<(i - 1) % width, (i - 1) \div width>>]
    IN  SelectSeq(all, LAMBDA p : ~InSeq(p, snake))

spawn_food_raises(snake, width, height) ==
    spawn_food_available(snake, width, height) = <<>>

\* Every cell spawn_food can return (empty when it raises).
spawn_food(snake, width, height) ==
    choice(spawn_food_available(snake, width, height))

GameState(width, height, snake, food, direction, score, game_over, lives, max_lives) ==
    [width |-> width, height |-> height, snake |-> snake, food |-> food,
     direction |-> direction, score |-> score, game_over |-> game_over,
     lives |-> lives, max_lives |-> max_lives]

\* the test of line 79 with `and` for `or`.
invalid_board_both(width, height) ==
    width < MIN_BOARD_SIZE /\ height < MIN_BOARD_SIZE

\* the test of line 79
invalid_board(width, height) ==
    width < MIN_BOARD_SIZE \/ height < MIN_BOARD_SIZE

create_initial_state_raises(width, height) ==
    \/ invalid_board(width, height)
    \/ spawn_food_raises(initial_snake(width, height), width, height)

\* Every state create_initial_state can return (empty when it raises).
create_initial_state(width, height) ==
    IF invalid_board(width, height) THEN {}
    ELSE LET snake == initial_snake(width, height)
         IN  { GameState(width, height, snake, food, RIGHT, 0, FALSE,
                         DEFAULT_LIVES, DEFAULT_LIVES) :
                   food \in spawn_food(snake, width, height) }

\* next_lives that takes two lives per collision.
next_lives_two(s) == s.lives - 2

\* next_lives of line 112
next_lives(s) == s.lives - 1

\* the test of line 113, off by one.
out_of_lives_late(s) == next_lives(s) < 0

\* the test of line 113
out_of_lives(s) == next_lives(s) <= 0

after_collision_raises(s) ==
    /\ ~out_of_lives(s)
    /\ \E next_snake \in respawn_snake_memo(s.width, s.height, Len(s.snake)) :
           spawn_food_raises(next_snake, s.width, s.height)

\* Every state _after_collision can return.
after_collision(s) ==
    IF out_of_lives(s)
    THEN { GameState(s.width, s.height, s.snake, s.food, s.direction,
                     s.score, TRUE, 0, s.max_lives) }
    ELSE UNION {
           { GameState(s.width, s.height, next_snake, next_food,
                       direction_from_snake(next_snake), s.score, FALSE,
                       next_lives(s), s.max_lives) :
                 next_food \in spawn_food(next_snake, s.width, s.height) } :
           next_snake \in respawn_snake_memo(s.width, s.height, Len(s.snake)) }

\* step_state that applies the request without update_direction.
step_direction_unfiltered(s, req) ==
    IF req # None THEN req ELSE s.direction

\* direction after lines 148-150 of step_state
step_direction(s, req) ==
    IF req # None THEN update_direction(s.direction, req) ELSE s.direction

\* next_head that wraps around the edges of the board.
step_next_head_wrapped(s, req) ==
    LET direction == step_direction(s, req)
    IN  <<(s.snake[1][1] + direction[1]) % s.width,
          (s.snake[1][2] + direction[2]) % s.height>>

\* next_head of lines 152-153
step_next_head(s, req) ==
    LET direction == step_direction(s, req)
    IN  <<s.snake[1][1] + direction[1], s.snake[1][2] + direction[2]>>

\* the condition of lines 155-160
hits_wall(s, req) ==
    LET next_head == step_next_head(s, req)
    IN  \/ next_head[1] < 0
        \/ next_head[1] >= s.width
        \/ next_head[2] < 0
        \/ next_head[2] >= s.height

\* grow of line 176
step_grow(s, req) == step_next_head(s, req) = s.food

\* body_for_collision that always counts the tail as an obstacle.
body_for_collision_full(s, req) == s.snake

\* body_for_collision of line 177
body_for_collision(s, req) ==
    IF step_grow(s, req) THEN s.snake ELSE SubSeq(s.snake, 1, Len(s.snake) - 1)

\* step_state without its self-collision test.
hits_self_never(s, req) == FALSE

\* the condition of line 178
hits_self(s, req) == InSeq(step_next_head(s, req), body_for_collision(s, req))

\* step_state that hands the unmodified input state to _after_collision.
collided_state_stale(s, req) == s

\* the GameState handed to _after_collision (lines 162-172 and 180-190)
collided_state(s, req) ==
    GameState(s.width, s.height, s.snake, s.food, step_direction(s, req),
              s.score, s.game_over, s.lives, s.max_lives)

\* next_snake that drops the tail before the grow test.
step_next_snake_popped(s, req) ==
    <<step_next_head(s, req)>> \o SubSeq(s.snake, 1, Len(s.snake) - 1)

\* next_snake of line 194
step_next_snake(s, req) == <<step_next_head(s, req)>> \o s.snake

\* win test that is off by one.
board_filled_late(s, next_snake) == Len(next_snake) = s.width * s.height + 1

\* the condition of line 200
board_filled(s, next_snake) == Len(next_snake) = s.width * s.height

\* The return statement of step_state that a call reaches.
step_branch(s, req) ==
    IF s.game_over THEN "game_over"
    ELSE IF hits_wall(s, req) THEN "wall"
    ELSE IF hits_self(s, req) THEN "self"
    ELSE IF ~step_grow(s, req) THEN "move"
    ELSE IF board_filled(s, step_next_snake(s, req)) THEN "win"
    ELSE "grow"

step_state_raises(s, req) ==
    CASE step_branch(s, req) \in {"wall", "self"} ->
             after_collision_raises(collided_state(s, req))
      [] step_branch(s, req) = "grow" ->
             spawn_food_raises(step_next_snake(s, req), s.width, s.height)
      [] OTHER -> FALSE

\* step_state past the game_over test (lines 148-226)
step_active(s, req) ==
    LET direction == step_direction(s, req)
        next_snake == step_next_snake(s, req)
    IN  IF hits_wall(s, req) THEN after_collision(collided_state(s, req))
        ELSE IF hits_self(s, req) THEN after_collision(collided_state(s, req))
        ELSE IF step_grow(s, req)
        THEN IF board_filled(s, next_snake)
             THEN { GameState(s.width, s.height, next_snake, s.food,
                              direction, s.score + 1, TRUE, s.lives,
                              s.max_lives) }
             ELSE { GameState(s.width, s.height, next_snake, next_food,
                              direction, s.score + 1, FALSE, s.lives,
                              s.max_lives) :
                        next_food \in spawn_food(next_snake, s.width, s.height) }
        ELSE { GameState(s.width, s.height,
                         SubSeq(next_snake, 1, Len(next_snake) - 1),
                         s.food, direction, s.score, FALSE, s.lives,
                         s.max_lives) }

\* step_state without the game_over test of lines 145-146.
step_state_unguarded(s, req) == step_active(s, req)

\* Every state step_state can return.
step_state(s, req) ==
    IF s.game_over THEN {s} ELSE step_active(s, req)

----------------------------------------------------------------------------
(* The game as a state machine: one step_state call per step *)

\* The loop variables while step_state is driven directly.
NoLoop ==
    /\ term = <<0, 0>>
    /\ target_size = 0
    /\ started = TRUE
    /\ paused = FALSE
    /\ requested_direction = None
    /\ pc = "engine"
    /\ ticks = 0

Init ==
    /\ state \in create_initial_state(MIN_BOARD_SIZE, MIN_BOARD_SIZE)
    /\ branch = "init"
    /\ raised = "none"
    /\ args = <<MIN_BOARD_SIZE, MIN_BOARD_SIZE>>
    /\ NoLoop

\* A play of ten ticks from create_initial_state(4, 4) in which every tick
\* eats the food: the direction requested at each tick and the cell the
\* random source then gives spawn_food.
LatePlay ==
    << [req |-> UP,    food |-> <<1, 1>>],
       [req |-> LEFT,  food |-> <<1, 0>>],
       [req |-> UP,    food |-> <<2, 0>>],
       [req |-> RIGHT, food |-> <<3, 0>>],
       [req |-> None,  food |-> <<3, 1>>],
       [req |-> DOWN,  food |-> <<3, 2>>],
       [req |-> None,  food |-> <<3, 3>>],
       [req |-> None,  food |-> <<2, 3>>],
       [req |-> LEFT,  food |-> <<1, 3>>],
       [req |-> None,  food |-> <<0, 0>>] >>

\* step_state applied along a play.
RECURSIVE Replay(_, _)
Replay(s, play) ==
    IF play = <<>> THEN s
    ELSE LET tick == Head(play)
             next == CHOOSE t \in step_state(s, tick.req) : t.food = tick.food
         IN  Replay(next, Tail(play))

\* The state LatePlay ends in: 13 segments, 3 lives, head at (1, 3) going LEFT.
LateState ==
    Replay(CHOOSE s \in create_initial_state(MIN_BOARD_SIZE, MIN_BOARD_SIZE) :
               s.food = <<2, 1>>,
           LatePlay)

\* The game right after LatePlay and one more tick that runs into the
\* bottom wall: a respawned 13-segment snake with 2 lives.
InitLate ==
    /\ state \in step_state(LateState, DOWN)
    /\ branch = step_branch(LateState, DOWN)
    /\ raised = "none"
    /\ args = <<MIN_BOARD_SIZE, MIN_BOARD_SIZE>>
    /\ NoLoop

\* state = step_state(state, requested_direction), for any request and any
\* behaviour of the random source.  Growth is explored up to MaxLen segments
\* and again from the length LatePlay reaches.
Step ==
    \E req \in Requests :
        /\ pc = "engine"
        /\ UNCHANGED <<args, loop_vars>>
        /\ step_branch(state, req) \in {"grow", "win"} =>
               \/ Len(state.snake) < MaxLen
               \/ Len(state.snake) >= Len(LateState.snake)
        /\ branch' = step_branch(state, req)
        /\ IF step_state_raises(state, req)
           THEN /\ raised' = "ValueError"
                /\ state' = state
           ELSE /\ raised' = "none"
                /\ state' \in step_state(state, req)

Next == Step

\* Games from construction.
Spec == Init /\ [][Next]_vars

\* Games from construction and late games.
SpecLate == (Init \/ InitLate) /\ [][Next]_vars

----------------------------------------------------------------------------
(* create_initial_state called once with any arguments *)

\* No GameState has been constructed yet.
NoState == <<>>

\* The argument lists explored: no explicit size, or any width and height.
CreateArgs == {<<>>} \cup ((0..MaxBoard) \X (0..MaxBoard))

\* width and height of a call, with the defaults of line 77.
arg_width(a) == IF a = <<>> THEN DEFAULT_WIDTH ELSE a[1]

arg_height(a) == IF a = <<>> THEN DEFAULT_HEIGHT ELSE a[2]

InitCreate ==
    /\ args \in CreateArgs
    /\ state = NoState
    /\ branch = "none"
    /\ raised = "none"
    /\ NoLoop

\* state = create_initial_state(*args)
CallCreateInitialState ==
    /\ pc = "engine"
    /\ branch = "none"
    /\ branch' = "init"
    /\ IF create_initial_state_raises(arg_width(args), arg_height(args))
       THEN /\ raised' = "ValueError"
            /\ state' = state
       ELSE /\ raised' = "none"
            /\ state' \in create_initial_state(arg_width(args), arg_height(args))
    /\ UNCHANGED <<args, loop_vars>>

NextCreate == CallCreateInitialState

SpecCreate == InitCreate /\ [][NextCreate]_vars

----------------------------------------------------------------------------
(* cli.py *)

Max2(a, b) == IF a >= b THEN a ELSE b

Min3(a, b, c) == MinOf(MinOf(a, b), c)

\* compute_board_size without the MAX_BOARD_SIZE cap.
compute_board_size_uncapped(term_rows, term_cols) ==
    LET usable_rows == Max2(term_rows - 3, 0)
        usable_cols == Max2(term_cols - 2, 0) \div CELL_WIDTH
        size == MinOf(usable_rows, usable_cols)
    IN  Max2(MIN_BOARD_SIZE, size)

compute_board_size(term_rows, term_cols) ==
    LET usable_rows == Max2(term_rows - 3, 0)
        usable_cols == Max2(term_cols - 2, 0) \div CELL_WIDTH
        size == Min3(usable_rows, usable_cols, MAX_BOARD_SIZE)
    IN  Max2(MIN_BOARD_SIZE, size)

\* Every state create_state_for_terminal can return for a terminal of size t.
create_state_for_terminal(t) ==
    LET board_size == compute_board_size(t[1], t[2])
    IN  create_initial_state(board_size, board_size)

\* the return value of draw (line 228)
can_render(t) == t[1] >= 2 /\ t[2] >= 2

\* KEYS of lines 32-37
KEYS ==
    [k \in {"KEY_UP", "KEY_DOWN", "KEY_LEFT", "KEY_RIGHT"} |->
        CASE k = "KEY_UP" -> UP
          [] k = "KEY_DOWN" -> DOWN
          [] k = "KEY_LEFT" -> LEFT
          [] k = "KEY_RIGHT" -> RIGHT]

\* What getch can return: no key (-1), an arrow, q, p, r or the space bar.
Keys == DOMAIN KEYS \cup {"none", "q", "p", "r", "space"}

\* Terminals explored in SpecCli: boards of 4 and 5 cells, and a terminal
\* of one row, on which draw reports that it cannot render.
TermSizes == {<<7, 14>>, <<8, 17>>, <<1, 14>>}

----------------------------------------------------------------------------
(* compute_board_size called once on any terminal size *)

InitSize ==
    /\ term \in (0..MaxTermRows) \X (0..MaxTermCols)
    /\ target_size = 0
    /\ state = NoState
    /\ branch = "none"
    /\ raised = "none"
    /\ args = <<>>
    /\ started = FALSE
    /\ paused = FALSE
    /\ requested_direction = None
    /\ pc = "size"
    /\ ticks = 0

\* target_size = compute_board_size(*stdscr.getmaxyx())
CallComputeBoardSize ==
    /\ pc = "size"
    /\ target_size = 0
    /\ target_size' = compute_board_size(term[1], term[2])
    /\ UNCHANGED <<state, branch, raised, args, term, started, paused,
                   requested_direction, pc, ticks>>

NextSize == CallComputeBoardSize

SpecSize == InitSize /\ [][NextSize]_vars

----------------------------------------------------------------------------
(* _run: the presentation loop *)

\* The food of t is one of the first MaxPick free cells of spawn_food.
FoodPicked(t) ==
    LET available == spawn_food_available(t.snake, t.width, t.height)
    IN  \E i \in 1..MinOf(MaxPick, Len(available)) : available[i] = t.food

\* The start cell of the respawned snake of t is one of the first MaxPick
\* columns and rows.
StartPicked(t) == t.snake[1][1] < MaxPick /\ t.snake[1][2] < MaxPick

\* The outcomes of step_state(s, req) under the random sources explored.
step_state_picked(s, req) ==
    { t \in step_state(s, req) :
        /\ step_branch(s, req) = "grow" => FoodPicked(t)
        /\ (step_branch(s, req) \in {"wall", "self"} /\ ~t.game_over)
               => (FoodPicked(t) /\ StartPicked(t)) }

----------------------------------------------------------------------------
(* step_state called again and again without a requested direction *)

\* The play before the requests stop: Step, explored while the game has
\* all its lives and throughout the late games.
StepFullLives ==
    /\ \/ state.lives = DEFAULT_LIVES
       \/ Len(state.snake) >= Len(LateState.snake)
    /\ Step

\* The caller stops requesting directions: from here on every call is
\* step_state(state) with requested_direction left at its default None.
StopRequesting ==
    /\ pc = "engine"
    /\ ~state.game_over
    /\ pc' = "idle"
    /\ UNCHANGED <<state, branch, raised, args, term, target_size, started,
                   paused, requested_direction, ticks>>

\* state = step_state(state), for any behaviour of the random source and
\* at any snake length.
StepNoRequest ==
    /\ pc = "idle"
    /\ UNCHANGED <<args, loop_vars>>
    /\ branch' = step_branch(state, None)
    /\ IF step_state_raises(state, None)
       THEN /\ raised' = "ValueError"
            /\ state' = state
       ELSE /\ raised' = "none"
            /\ state' \in step_state(state, None)

NextIdle == StepFullLives \/ StopRequesting \/ StepNoRequest

\* ENABLED <<StepNoRequest>>_vars as a state predicate: a call on an
\* active game returns another state, a call on a finished game returns
\* the same state and changes at most `branch`.
StepNoRequestEnabled ==
    pc = "idle" /\ (~state.game_over \/ branch # "game_over")

\* WF_vars(StepNoRequest), the caller keeps calling step_state, written
\* with StepNoRequestEnabled for the ENABLED and with the steps that start
\* and end at "idle", which in NextIdle are the StepNoRequest steps.
StepNoRequestFair ==
    \/ []<>~StepNoRequestEnabled
    \/ []<><<pc = "idle" /\ pc' = "idle">>_vars

\* Games in which the caller at some point stops requesting directions and
\* keeps calling step_state.
SpecIdle ==
    (Init \/ InitLate) /\ [][NextIdle]_vars /\ StepNoRequestFair

----------------------------------------------------------------------------
(* The loop of _run *)

\* lines 251-256
InitCli ==
    /\ term \in TermSizes
    /\ state \in { t \in create_state_for_terminal(term) : FoodPicked(t) }
    /\ branch = "init"
    /\ raised = "none"
    /\ args = <<compute_board_size(term[1], term[2]),
                compute_board_size(term[1], term[2])>>
    /\ target_size = 0
    /\ started = FALSE
    /\ paused = FALSE
    /\ requested_direction = None
    /\ pc = "resize"
    /\ ticks = 0

\* A new game that leaves the paused flag as it is.
FreshGameStillPaused(size) ==
    /\ state' \in { t \in create_initial_state(size, size) : FoodPicked(t) }
    /\ args' = <<size, size>>
    /\ branch' = "init"
    /\ raised' = "none"
    /\ paused' = paused
    /\ requested_direction' = None
    /\ ticks' = 0

\* state = create_initial_state(size, size) and the resets that follow it
\* (lines 264-267, 276-279, 293-296)
FreshGame(size) ==
    /\ state' \in { t \in create_initial_state(size, size) : FoodPicked(t) }
    /\ args' = <<size, size>>
    /\ branch' = "init"
    /\ raised' = "none"
    /\ paused' = FALSE
    /\ requested_direction' = None
    /\ ticks' = 0

\* The terminal is resized; curses reports it between two loop iterations.
TerminalResize ==
    /\ pc = "resize"
    /\ term' \in TermSizes \ {term}
    /\ UNCHANGED <<state, branch, raised, args, target_size, started, paused,
                   requested_direction, pc, ticks>>

\* The top of the loop body, lines 262-267.
ResizeCheck ==
    /\ pc = "resize"
    /\ target_size' = compute_board_size(term[1], term[2])
    /\ IF target_size' # state.width
       THEN FreshGame(target_size')
       ELSE UNCHANGED <<state, args, branch, raised, paused,
                        requested_direction, ticks>>
    /\ pc' = "input"
    /\ UNCHANGED <<term, started>>

\* getch and the handling of the key, lines 269-298.
Input ==
    /\ pc = "input"
    /\ \E key \in Keys :
        IF ~started
        THEN CASE key = "q" ->
                    /\ pc' = "done"
                    /\ UNCHANGED <<state, args, branch, raised, paused,
                                   requested_direction, ticks, started>>
               [] key = "space" ->
                    /\ started' = TRUE
                    /\ FreshGame(compute_board_size(term[1], term[2]))
                    /\ pc' = "resize"
               [] OTHER ->
                    /\ pc' = "resize"
                    /\ UNCHANGED <<state, args, branch, raised, paused,
                                   requested_direction, ticks, started>>
        ELSE CASE key \in DOMAIN KEYS /\ ~state.game_over ->
                    /\ requested_direction' = KEYS[key]
                    /\ pc' = "tick"
                    /\ UNCHANGED <<state, args, branch, raised, paused,
                                   ticks, started>>
               [] key = "q" ->
                    /\ pc' = "done"
                    /\ UNCHANGED <<state, args, branch, raised, paused,
                                   requested_direction, ticks, started>>
               [] key = "p" /\ ~state.game_over ->
                    /\ paused' = ~paused
                    /\ pc' = "tick"
                    /\ UNCHANGED <<state, args, branch, raised,
                                   requested_direction, ticks, started>>
               [] key = "r" ->
                    /\ FreshGame(compute_board_size(term[1], term[2]))
                    /\ pc' = "resize"
                    /\ UNCHANGED started
               [] OTHER ->
                    /\ pc' = "tick"
                    /\ UNCHANGED <<state, args, branch, raised, paused,
                                   requested_direction, ticks, started>>
    /\ UNCHANGED <<term, target_size>>

\* the condition of line 301 without the paused flag.
should_step_while_paused(t, p, s, due) ==
    can_render(t) /\ ~s.game_over /\ due

\* the condition of line 301
should_step(t, p, s, due) ==
    can_render(t) /\ ~p /\ ~s.game_over /\ due

\* The tick at the end of the loop body, lines 300-306; `due` is whether
\* the delay since last_tick has elapsed.
Tick ==
    /\ pc = "tick"
    /\ \E due \in BOOLEAN :
        IF should_step(term, paused, state, due)
        THEN /\ ticks < MaxTicks
             /\ ticks' = ticks + 1
             /\ branch' = step_branch(state, requested_direction)
             /\ requested_direction' = None
             /\ IF step_state_raises(state, requested_direction)
                THEN /\ raised' = "ValueError"
                     /\ state' = state
                     /\ pc' = "done"
                ELSE /\ raised' = "none"
                     /\ state' \in step_state_picked(state, requested_direction)
                     /\ pc' = "resize"
        ELSE /\ pc' = "resize"
             /\ UNCHANGED <<state, branch, raised, requested_direction, ticks>>
    /\ UNCHANGED <<args, term, target_size, started, paused>>

NextCli == TerminalResize \/ ResizeCheck \/ Input \/ Tick

SpecCli == InitCli /\ [][NextCli]_vars

----------------------------------------------------------------------------
(* Vocabulary of the properties *)

NoDuplicates(seq) ==
    \A i, j \in DOMAIN seq : i # j => seq[i] # seq[j]

Cells(width, height) == (0..(width - 1)) \X (0..(height - 1))

SnakeCells(s) == {s.snake[i] : i \in DOMAIN s.snake}

Opposite(d) ==
    CASE d = UP -> DOWN
      [] d = DOWN -> UP
      [] d = LEFT -> RIGHT
      [] d = RIGHT -> LEFT

\* The direction a tick moves in: the request unless there is none or it
\* is the opposite of the current direction.
Resolved(current, req) ==
    IF req = None \/ req = Opposite(current) THEN current ELSE req

Active(s) == ~s.game_over

\* The cell in front of the head when moving in direction d.
Ahead(s, d) == <<s.snake[1][1] + d[1], s.snake[1][2] + d[2]>>

\* A step of an active game in direction d that leaves the board or runs
\* into the comparison body.
Collides(s, d) ==
    LET ahead == Ahead(s, d)
        body  == IF ahead = s.food THEN s.snake
                 ELSE SubSeq(s.snake, 1, Len(s.snake) - 1)
    IN  \/ ahead \notin Cells(s.width, s.height)
        \/ InSeq(ahead, body)

Adjacent(p, q) ==
    LET dx == p[1] - q[1]
        dy == p[2] - q[2]
    IN  dx * dx + dy * dy = 1

----------------------------------------------------------------------------
(* C1 *)

\* C1 as stated: in every reachable state, game over or not, the food cell
\* is not one of the snake's cells.
C1_FoodNeverOnSnake == state.food \notin SnakeCells(state)

\* C1 amended: in every reachable state whose snake does not fill the
\* board the food cell is not one of the snake's cells; in the board-filled
\* win state the food is the cell the head has just moved onto.
C1_FoodOffSnakeUnlessBoardFilled ==
    IF Len(state.snake) < state.width * state.height
    THEN state.food \notin SnakeCells(state)
    ELSE state.food = state.snake[1]

C1_Witness ==
    /\ branch = "grow"
    /\ state.lives = 1
    /\ state.food \notin SnakeCells(state)

----------------------------------------------------------------------------
(* C2 *)

\* C2: in every reachable state the snake has no duplicate points, also
\* after growth, moves into the vacated tail cell and respawns, including
\* respawns that jump to a free cell.
C2_SnakeHasNoDuplicates == NoDuplicates(state.snake)

\* A respawn has just produced a snake with a jump in it.
C2_Witness ==
    /\ branch \in {"wall", "self"}
    /\ Active(state)
    /\ \E i \in 1..(Len(state.snake) - 1) :
           ~Adjacent(state.snake[i], state.snake[i + 1])
    /\ NoDuplicates(state.snake)

----------------------------------------------------------------------------
(* C3 *)

\* C3: once game_over is true every step_state call, whatever the request
\* and the random source, returns the state it was given, so no field
\* changes any more.
C3_GameOverIsTerminal ==
    [][state.game_over =>
           /\ state' = state
           /\ \A req \in Requests : step_state(state, req) = {state}]_vars

\* step_state has been called on a finished game.
C3_Witness ==
    /\ state.game_over
    /\ branch = "game_over"

----------------------------------------------------------------------------
(* C4 *)

\* C4: a step leaves lives unchanged or decreases it by exactly 1, and it
\* decreases only on a step that is a wall or self collision.
C4_LivesOnlyDecreaseOnCollision ==
    [][\/ state'.lives = state.lives
       \/ /\ state'.lives = state.lives - 1
          /\ branch' \in {"wall", "self"}
          /\ \E d \in Directions : Collides(state, d)]_vars

\* A self collision has cost the second life.
C4_Witness ==
    /\ branch = "self"
    /\ Active(state)
    /\ state.lives = 1

----------------------------------------------------------------------------
(* C5 *)

\* C5 as stated: the direction stored after a step is never the exact
\* reverse of the direction stored before it, also when the step was a
\* collision followed by a respawn.
C5_NeverReversed ==
    [][state'.direction # Opposite(state.direction)]_vars

\* C5 amended: the direction stored after a step is never the exact
\* reverse of the direction stored before it, unless the step was a
\* collision followed by a respawn; the respawned snake faces from its
\* second segment to its head, which may be the reverse.
C5_NeverReversedWithoutRespawn ==
    [][(branch' \in {"wall", "self"} /\ Active(state'))
           \/ state'.direction # Opposite(state.direction)]_vars

\* A collision without a respawn has been recorded.
C5_Witness ==
    /\ branch = "wall"
    /\ state.game_over
    /\ state.direction # RIGHT

----------------------------------------------------------------------------
(* C6 *)

----------------------------------------------------------------------------
(* C7 *)

\* C7: with lives = 1, a step that is a wall or self collision yields
\* game_over true and lives 0, with snake, food and score as in the input
\* and the direction resolved for that tick.
C7_FatalCollisionFreezes ==
    \A req \in Requests :
        (/\ Active(state)
         /\ state.lives = 1
         /\ Collides(state, Resolved(state.direction, req)))
        => /\ ~step_state_raises(state, req)
           /\ step_state(state, req) =
                  { [state EXCEPT !.game_over = TRUE,
                                  !.lives = 0,
                                  !.direction = Resolved(state.direction, req)] }

\* The last life has been lost to a self collision.
C7_Witness ==
    /\ branch = "self"
    /\ state.game_over
    /\ state.lives = 0

----------------------------------------------------------------------------
(* C8 *)

\* C8: when the snake has width*height - 1 segments and the step moves the
\* head onto the food, step_state raises nothing and returns game_over true
\* with the head prepended, score + 1, lives and food unchanged; and no
\* reachable snake is longer than width*height.
C8_BoardFilledWin ==
    /\ Len(state.snake) <= state.width * state.height
    /\ raised = "none"
    /\ \A req \in Requests :
           (/\ Active(state)
            /\ Len(state.snake) = state.width * state.height - 1
            /\ Ahead(state, Resolved(state.direction, req)) = state.food)
           => /\ ~step_state_raises(state, req)
              /\ step_state(state, req) =
                     { [state EXCEPT !.snake = <<state.food>> \o state.snake,
                                     !.score = state.score + 1,
                                     !.game_over = TRUE,
                                     !.direction = Resolved(state.direction, req)] }

\* The board has been filled.
C8_Witness ==
    /\ branch = "win"
    /\ state.game_over
    /\ Len(state.snake) = state.width * state.height
    /\ state.lives >= 1

----------------------------------------------------------------------------
(* C9 *)

\* C9: when the next head is the food and the grown snake does not fill
\* the board, step_state returns the new head prepended to the whole
\* snake, score + 1, lives unchanged, game_over false, and as new food any
\* cell not occupied by the grown snake.
C9_GrowthKeepsTail ==
    \A req \in Requests :
        (/\ Active(state)
         /\ Ahead(state, Resolved(state.direction, req)) = state.food
         /\ Len(state.snake) + 1 < state.width * state.height)
        => /\ ~step_state_raises(state, req)
           /\ step_state(state, req) =
                  { [state EXCEPT !.snake = <<state.food>> \o state.snake,
                                  !.score = state.score + 1,
                                  !.direction = Resolved(state.direction, req),
                                  !.food = f] :
                        f \in Cells(state.width, state.height)
                                  \ (SnakeCells(state) \cup {state.food}) }

\* The snake has just eaten.
C9_Witness ==
    /\ branch = "grow"
    /\ state.score = 1
    /\ Len(state.snake) = 4
    /\ Active(state)

----------------------------------------------------------------------------
(* C10 *)

\* C10: update_direction(current, requested) is current when requested is
\* the exact reverse of current and requested otherwise (RIGHT,LEFT gives
\* RIGHT; RIGHT,UP gives UP; RIGHT,RIGHT gives RIGHT), and step_state
\* applies it only when a direction was requested, keeping the current
\* direction otherwise.
C10_UpdateDirection ==
    /\ update_direction(RIGHT, LEFT) = RIGHT
    /\ update_direction(RIGHT, UP) = UP
    /\ update_direction(RIGHT, RIGHT) = RIGHT
    /\ \A req \in Directions :
           update_direction(state.direction, req) =
               (IF req = Opposite(state.direction) THEN state.direction ELSE req)
    /\ \A req \in Requests :
           (Active(state) /\ ~Collides(state, Resolved(state.direction, req)))
           => \A t \in step_state(state, req) :
                  t.direction = (IF req = None THEN state.direction
                                 ELSE update_direction(state.direction, req))

\* A requested turn has been applied before any respawn.
C10_Witness ==
    /\ state.lives = 3
    /\ branch = "move"
    /\ state.direction = UP

----------------------------------------------------------------------------
(* C11 *)

\* C11: in any play from create_initial_state on a valid board spawn_food
\* is never called with a snake that occupies every cell: neither
\* create_initial_state nor any step_state call (growth, win, respawn at any
\* length up to width*height - 1) raises its board-full error.
C11_SpawnFoodNeverRaises ==
    /\ raised = "none"
    /\ ~spawn_food_raises(initial_snake(state.width, state.height),
                          state.width, state.height)
    /\ \A req \in Requests : ~step_state_raises(state, req)

\* A snake of width*height - 1 segments has been respawned and food placed
\* on the one free cell.
C11_Witness ==
    /\ branch \in {"wall", "self"}
    /\ Active(state)
    /\ Len(state.snake) = state.width * state.height - 1
    /\ raised = "none"

----------------------------------------------------------------------------
(* C15 *)

\* C15: when the next head is in bounds, is not the food and is not in the
\* snake minus its last segment (it may be the tail cell), the step is no
\* collision: the head is prepended and the last segment dropped, and food,
\* score, lives, width, height and max_lives are unchanged, game_over false.
C15_MoveDropsTail ==
    \A req \in Requests :
        LET ahead == Ahead(state, Resolved(state.direction, req))
            front == SubSeq(state.snake, 1, Len(state.snake) - 1)
        IN  (/\ Active(state)
             /\ ahead \in Cells(state.width, state.height)
             /\ ahead # state.food
             /\ ~InSeq(ahead, front))
            => /\ ~step_state_raises(state, req)
               /\ step_state(state, req) =
                      { [state EXCEPT !.snake = <<ahead>> \o front,
                                      !.direction = Resolved(state.direction, req)] }

\* The snake has moved and its head can now move onto its own tail cell.
C15_Witness ==
    /\ branch = "move"
    /\ Active(state)
    /\ \E d \in Directions :
           /\ d # Opposite(state.direction)
           /\ Ahead(state, d) = state.snake[Len(state.snake)]
           /\ Ahead(state, d) # state.food

----------------------------------------------------------------------------
(* C16 *)

\* C16: in the respawn algorithm the direction of each extension is drawn
\* from the random source: when the end cell has several in-bounds
\* unoccupied neighbours, each of them is a possible next segment.  Stated
\* for the first extension, where only the start cell is occupied: after a
\* non-fatal collision every cell and every in-bounds neighbour of it can be
\* the head and the second segment of the respawned snake.
C16_EveryFreeNeighbourPossible ==
    \A req \in Requests :
        (/\ Active(state)
         /\ state.lives >= 2
         /\ Collides(state, Resolved(state.direction, req)))
        => \A c \in Cells(state.width, state.height) :
               \A d \in Directions :
                   <<c[1] + d[1], c[2] + d[2]>> \in Cells(state.width, state.height)
                   => \E t \in step_state(state, req) :
                          /\ t.snake[1] = c
                          /\ t.snake[2] = <<c[1] + d[1], c[2] + d[2]>>

----------------------------------------------------------------------------
(* C19 *)

\* C19: in every reachable state game_over is true exactly when lives = 0
\* or the snake has width*height segments, and while game_over is false
\* 1 <= lives <= max_lives = 3.
C19_GameOverIffNoLivesOrBoardFilled ==
    /\ state.game_over <=>
           (state.lives = 0 \/ Len(state.snake) = state.width * state.height)
    /\ Active(state) =>
           /\ 1 <= state.lives
           /\ state.lives <= state.max_lives
           /\ state.max_lives = 3

\* The last life has been lost at a wall with room left on the board.
C19_Witness ==
    /\ branch = "wall"
    /\ state.game_over
    /\ state.lives = 0
    /\ Len(state.snake) < state.width * state.height

----------------------------------------------------------------------------
(* C20 *)

\* C20: in every reachable state score = len(snake) - 3.
C20_ScoreIsLengthMinusThree ==
    state.score = Len(state.snake) - 3

\* The snake has grown after a respawn.
C20_Witness ==
    /\ branch = "grow"
    /\ state.lives = 2
    /\ state.score = 11
    /\ Len(state.snake) = 14

----------------------------------------------------------------------------
(* C12 *)

\* C12: create_initial_state(width, height) fails with the invalid-board
\* error and produces no state whenever width < 4 or height < 4, and
\* succeeds for every width >= 4 and height >= 4.
C12_InvalidBoardRejected ==
    branch = "init" =>
        LET width  == IF args = <<>> THEN 20 ELSE args[1]
            height == IF args = <<>> THEN 20 ELSE args[2]
        IN  IF width < 4 \/ height < 4
            THEN raised = "ValueError" /\ state = NoState
            ELSE /\ raised = "none"
                 /\ state.width = width
                 /\ state.height = height

\* A board of 4 by 3 has been rejected.
C12_Witness ==
    /\ branch = "init"
    /\ args = <<4, 3>>
    /\ raised = "ValueError"

----------------------------------------------------------------------------
(* C13 *)

\* C13: on a valid board create_initial_state returns a 3-segment snake
\* with its head at (width div 2, height div 2) and the other segments the
\* next two cells in the -x direction, all in bounds, direction RIGHT,
\* score 0, lives = max_lives = 3, game_over false and food off the snake;
\* with no explicit size the board is 20 by 20.
C13_InitialState ==
    (branch = "init" /\ raised = "none") =>
        LET width  == IF args = <<>> THEN 20 ELSE args[1]
            height == IF args = <<>> THEN 20 ELSE args[2]
            cx == width \div 2
            cy == height \div 2
        IN  /\ state.width = width
            /\ state.height = height
            /\ state.snake = <<<<cx, cy>>, <<cx - 1, cy>>, <<cx - 2, cy>>>>
            /\ SnakeCells(state) \subseteq Cells(width, height)
            /\ state.direction = RIGHT
            /\ state.score = 0
            /\ state.lives = 3
            /\ state.max_lives = 3
            /\ state.game_over = FALSE
            /\ state.food \in Cells(width, height) \ SnakeCells(state)

\* create_initial_state() has returned a board of 20 by 20.
C13_Witness ==
    /\ branch = "init"
    /\ raised = "none"
    /\ args = <<>>
    /\ state.width = 20
    /\ state.height = 20

----------------------------------------------------------------------------
(* C14 *)

\* min(max(rows - 3, 0), max(cols - 2, 0) div 3) clamped into [4, 48]
ClampedSquare(rows, cols) ==
    LET usable_rows == IF rows > 3 THEN rows - 3 ELSE 0
        usable_cols == (IF cols > 2 THEN cols - 2 ELSE 0) \div 3
        fit == IF usable_rows < usable_cols THEN usable_rows ELSE usable_cols
    IN  IF fit < 4 THEN 4 ELSE IF fit > 48 THEN 48 ELSE fit

\* C14: compute_board_size(term_rows, term_cols) is
\* min(max(term_rows - 3, 0), max(term_cols - 2, 0) div 3) clamped into
\* [4, 48], so it is between 4 and 48 and never a board that
\* create_initial_state rejects.
C14_BoardSizeClamped ==
    target_size # 0 =>
        /\ target_size = ClampedSquare(term[1], term[2])
        /\ 4 <= target_size
        /\ target_size <= 48
        /\ ~(target_size < 4)
        /\ ~invalid_board(target_size, target_size)

\* A terminal of 53 rows and 150 columns has been given the largest board.
C14_Witness ==
    /\ term = <<53, 150>>
    /\ target_size = 48

----------------------------------------------------------------------------
(* C17 *)

\* C17: the loop calls step_state only when the game has been started, is
\* not paused and is not over; while paused or game over no loop iteration
\* changes the GameState except a restart (R) or a board resize; and the P
\* key toggles pause only while the game is not over.
C17_StepOnlyWhenRunning ==
    [][/\ ticks' = ticks + 1 =>
              (started /\ ~paused /\ ~state.game_over /\ pc = "tick")
       /\ ((paused \/ state.game_over) /\ state' # state) =>
              \/ started /\ pc = "input" /\ pc' = "resize"
              \/ pc = "resize" /\ ClampedSquare(term[1], term[2]) # state.width
       /\ (paused' # paused /\ pc' = "tick") => ~state.game_over
       /\ ~(paused /\ state.game_over)]_vars

\* The loop has read a key while the game was over.
C17_Witness ==
    /\ started
    /\ state.game_over
    /\ pc = "tick"

----------------------------------------------------------------------------
(* C18 *)

\* A state as create_initial_state makes it for a square board.
IsFresh(s, size) ==
    /\ s.width = size
    /\ s.height = size
    /\ s.score = 0
    /\ s.lives = 3
    /\ s.game_over = FALSE
    /\ Len(s.snake) = 3

\* C18: every start (SPACE), restart (R) and change of the computed board
\* size replaces the state with a fresh create_initial_state result for the
\* new size and clears the paused flag and the buffered direction, also
\* when the previous state was paused or game over.
C18_FreshStateOnStartRestartResize ==
    [][(\/ ~started /\ started'
        \/ started /\ pc = "input" /\ pc' = "resize"
        \/ pc = "resize" /\ pc' = "input"
              /\ ClampedSquare(term[1], term[2]) # state.width)
       => /\ IsFresh(state', ClampedSquare(term[1], term[2]))
          /\ paused' = FALSE
          /\ requested_direction' = None]_vars

\* A started game has been replaced after the board grew to 5 by 5.
C18_Witness ==
    /\ started
    /\ pc = "input"
    /\ branch = "init"
    /\ state.width = 5
    /\ ticks = 0
    /\ ~paused

----------------------------------------------------------------------------
(* C21 *)

\* The snake _respawn_snake returned needed the jump to a free cell for
\* one of its segments.
Jumped(snake) ==
    \E i \in 1..(Len(snake) - 1) : ~Adjacent(snake[i], snake[i + 1])

\* C21: in every reachable state the direction is one of UP, DOWN, LEFT,
\* RIGHT; a respawned snake has its second segment orthogonally adjacent
\* to its head, so the direction taken from head minus second segment is a
\* unit vector, for the snake of the state and for every snake a respawn at
\* the current length can return.
C21_DirectionIsUnitVector ==
    /\ state.direction \in Directions
    /\ (branch \in {"wall", "self"} /\ Active(state)) =>
           /\ Len(state.snake) >= 2
           /\ Adjacent(state.snake[1], state.snake[2])
           /\ state.direction = <<state.snake[1][1] - state.snake[2][1],
                                  state.snake[1][2] - state.snake[2][2]>>
    /\ \A snake \in respawn_snake_memo(state.width, state.height,
                                        Len(state.snake)) :
           /\ Len(snake) >= 2
           /\ Adjacent(snake[1], snake[2])
           /\ direction_from_snake(snake) \in Directions

\* A respawn has returned a snake that starts in the rightmost column,
\* extends to the left and jumped to a free cell for a later segment; the
\* game goes on to the right from its head.
C21_Witness ==
    /\ branch \in {"wall", "self"}
    /\ Active(state)
    /\ Jumped(state.snake)
    /\ Adjacent(state.snake[1], state.snake[2])
    /\ state.direction = RIGHT

----------------------------------------------------------------------------
(* C22 *)

\* C22: from any reachable active state, once step_state is only called
\* with no requested direction and keeps being called, the game eventually
\* reaches game_over = true, whatever the random source returns.
C22_NoRequestEventuallyGameOver ==
    (pc = "idle" /\ Active(state)) ~> state.game_over

\* Without requests the snake has grown past the length explored with
\* requests and has lost its last life at a wall.
C22_Witness ==
    /\ pc = "idle"
    /\ state.game_over
    /\ state.lives = 0
    /\ branch = "wall"
    /\ Len(state.snake) > MaxLen
    /\ Len(state.snake) < Len(LateState.snake)

====
